---- MODULE Spec2Model ----
(***************************************************************************)
(* Persistent sets (Set, SortedSet, their iterators and builders) layered  *)
(* on a hash-trie Map and a balanced-tree SortedMap.                       *)
(*                                                                         *)
(* The heap is explicit: `maps` holds the Map / SortedMap objects that the *)
(* Set values point to (field m), `nodes` holds the tree nodes.  A pointer *)
(* is an index into the sequence, 0 is nil.                                *)
(***************************************************************************)
EXTENDS Integers, Sequences, FiniteSets, TLC

VARIABLES
    engine,     \* "hash" (Set over Map) or "sorted" (SortedSet over SortedMap)
    maps,       \* heap of Map objects: [root, size]
    nodes,      \* heap of tree nodes
    sets,       \* the Set values the callers hold: sets[i] is the pointer m
    itr,        \* the one iterator a reader holds
    builder,    \* the SetBuilder / SortedSetBuilder object (b.s.m), 0 = none
    last        \* record of the last call (history, read by the properties)

vars == <<engine, maps, nodes, sets, itr, builder, last>>

(***************************************************************************)
(* Bounds of the model.                                                    *)
(***************************************************************************)
MaxVal == 3         \* values are 1..MaxVal
MaxArgs == 2        \* longest variadic argument list
MaxSets == 3        \* Set values held by callers
MaxNew == 1         \* of which made by NewSet / NewSortedSet
MaxBuilderOps == 4  \* calls made through one builder
MaxIterVal == 5     \* values of the sets the seeking reader walks
MaxIterArgs == 3    \* longest argument list that builds such a set
MaxIterSets == 2    \* Set values held while seeking
Fan == 2            \* children per trie node (one hash chunk selects one)
MaxItems == 2       \* configured maximum item count of a tree node

Values == 1..MaxVal
ArgLists == UNION {[1..n -> Values] : n \in 0..MaxArgs}
Range(s) == {s[i] : i \in 1..Len(s)}
Max2(a, b) == IF a > b THEN a ELSE b

(***************************************************************************)
(* Hasher: hash(key) and equality.  The hasher handed to NewSet has two     *)
(* hash codes, 1 and 3: distinct keys either collide on the whole hash or  *)
(* share the first chunk and part on the second.                           *)
(***************************************************************************)
Hasher_Hash(key) == (2 * key + 1) % 4
Hasher_Equal(a, b) == a = b

\* The chunk of hash h that selects the child slot at trie level `level`.
RECURSIVE Pow(_, _)
Pow(b, e) == IF e = 0 THEN 1 ELSE b * Pow(b, e - 1)
Chunk(h, level) == (h \div Pow(Fan, level)) % Fan

Slots == 0..(Fan - 1)
NoSlots == [c \in Slots |-> 0]

(***************************************************************************)
(* Map (hash trie) nodes.  kind "leaf": one entry, or a bucket of entries  *)
(* whose hashes are all equal.  kind "bitmap" / "array": a branch, sparse  *)
(* or dense by the number of occupied slots.  owner is the Map object      *)
(* whose edit created the node: that edit alone may write to it.           *)
(***************************************************************************)
SlotCount(slots) == Cardinality({c \in Slots : slots[c] # 0})
BranchKind(slots) == IF 2 * SlotCount(slots) > Fan THEN "array" ELSE "bitmap"

mapLeaf(ed, h, entries) ==
    [kind |-> "leaf", owner |-> ed, hash |-> h, entries |-> entries, slots |-> NoSlots]
mapBranch(ed, slots) ==
    [kind |-> BranchKind(slots), owner |-> ed, hash |-> 0, entries |-> <<>>, slots |-> slots]

\* Result of a node operation: the heap after it, the node that now stands
\* at this place (0 = none), and whether the number of entries changed.
NodeResult(h, id, resized) == [nodes |-> h, id |-> id, resized |-> resized]

\* Write rec at node id when the edit owns it, otherwise to a fresh copy.
nodeWrite(h, id, ed, rec) ==
    IF h[id].owner = ed
    THEN [nodes |-> [h EXCEPT ![id] = rec], id |-> id]
    ELSE [nodes |-> Append(h, [rec EXCEPT !.owner = ed]), id |-> Len(h) + 1]

\* A leaf and a new key with a different hash: branch nodes on successive
\* chunks until the two hashes diverge.
RECURSIVE mergeIntoNode(_, _, _, _, _, _)
mergeIntoNode(h, leafId, key, keyHash, level, ed) ==
    LET c1 == Chunk(h[leafId].hash, level)
        c2 == Chunk(keyHash, level)
    IN  IF c1 = c2
        THEN LET sub == mergeIntoNode(h, leafId, key, keyHash, level + 1, ed)
             IN  [nodes |-> Append(sub.nodes, mapBranch(ed, [NoSlots EXCEPT ![c1] = sub.id])),
                  id |-> Len(sub.nodes) + 1]
        ELSE LET h1 == Append(h, mapLeaf(ed, keyHash, <<key>>))
                 nl == Len(h) + 1
             IN  [nodes |-> Append(h1, mapBranch(ed, [NoSlots EXCEPT ![c1] = leafId, ![c2] = nl])),
                  id |-> Len(h1) + 1]

RECURSIVE mapNode_set(_, _, _, _, _, _)
mapNode_set(h, id, key, keyHash, level, ed) ==
    LET n == h[id] IN
    IF n.kind = "leaf"
    THEN IF \E i \in 1..Len(n.entries) : Hasher_Equal(n.entries[i], key)
         THEN \* equal key: the value is replaced
              LET w == nodeWrite(h, id, ed, n)
              IN  NodeResult(w.nodes, w.id, FALSE)
         ELSE IF n.hash = keyHash
         THEN \* the whole hash collides: the bucket grows
              LET w == nodeWrite(h, id, ed, [n EXCEPT !.entries = Append(@, key)])
              IN  NodeResult(w.nodes, w.id, TRUE)
         ELSE LET g == mergeIntoNode(h, id, key, keyHash, level, ed)
              IN  NodeResult(g.nodes, g.id, TRUE)
    ELSE LET c == Chunk(keyHash, level)
             child == n.slots[c]
         IN  IF child = 0
             THEN LET h1 == Append(h, mapLeaf(ed, keyHash, <<key>>))
                      s1 == [n.slots EXCEPT ![c] = Len(h) + 1]
                      w == nodeWrite(h1, id, ed, mapBranch(n.owner, s1))
                  IN  NodeResult(w.nodes, w.id, TRUE)
             ELSE LET r == mapNode_set(h, child, key, keyHash, level + 1, ed)
                      s1 == [n.slots EXCEPT ![c] = r.id]
                      w == nodeWrite(r.nodes, id, ed, mapBranch(n.owner, s1))
                  IN  NodeResult(w.nodes, w.id, r.resized)

\* Remove position i of a sequence.
RemoveAt(s, i) == [j \in 1..(Len(s) - 1) |-> IF j < i THEN s[j] ELSE s[j + 1]]
IndexOf(s, x) == IF \E i \in 1..Len(s) : s[i] = x
                 THEN CHOOSE i \in 1..Len(s) : s[i] = x ELSE 0

RECURSIVE mapNode_delete(_, _, _, _, _, _)
mapNode_delete(h, id, key, keyHash, level, ed) ==
    LET n == h[id] IN
    IF n.kind = "leaf"
    THEN LET i == IndexOf(n.entries, key) IN
         IF i = 0 THEN NodeResult(h, id, FALSE)
         ELSE IF Len(n.entries) = 1 THEN NodeResult(h, 0, TRUE)
         ELSE LET w == nodeWrite(h, id, ed, [n EXCEPT !.entries = RemoveAt(@, i)])
              IN  NodeResult(w.nodes, w.id, TRUE)
    ELSE LET c == Chunk(keyHash, level)
             child == n.slots[c]
         IN  IF child = 0 THEN NodeResult(h, id, FALSE)
             ELSE LET r == mapNode_delete(h, child, key, keyHash, level + 1, ed) IN
                  IF ~r.resized THEN NodeResult(h, id, FALSE)
                  ELSE LET s1 == [n.slots EXCEPT ![c] = r.id]
                           only == CHOOSE x \in Slots : SlotCount(s1) # 1 \/ s1[x] # 0
                       IN  IF SlotCount(s1) = 0 THEN NodeResult(r.nodes, 0, TRUE)
                           ELSE IF SlotCount(s1) = 1 /\ r.nodes[s1[only]].kind = "leaf"
                           THEN \* one child left, a leaf: the node collapses into it
                                NodeResult(r.nodes, s1[only], TRUE)
                           ELSE LET w == nodeWrite(r.nodes, id, ed, mapBranch(n.owner, s1))
                                IN  NodeResult(w.nodes, w.id, TRUE)

RECURSIVE mapNode_get(_, _, _, _, _)
mapNode_get(h, id, key, keyHash, level) ==
    IF id = 0 THEN FALSE
    ELSE IF h[id].kind = "leaf"
    THEN \E i \in 1..Len(h[id].entries) : Hasher_Equal(h[id].entries[i], key)
    ELSE mapNode_get(h, h[id].slots[Chunk(keyHash, level)], key, keyHash, level + 1)

(***************************************************************************)
(* Map objects.  A heap state is st = [maps, nodes]; an operation returns  *)
(* the heap after it and the pointer it returns (ret).                     *)
(***************************************************************************)
Heap(ms, ns) == [maps |-> ms, nodes |-> ns]
MapResult(ms, ns, ret) == [maps |-> ms, nodes |-> ns, ret |-> ret]

NewMap(st) == MapResult(Append(st.maps, [root |-> 0, size |-> 0]), st.nodes, Len(st.maps) + 1)

\* clone: a second Map object with the same root and size.
Map_clone(st, m) == MapResult(Append(st.maps, st.maps[m]), st.nodes, Len(st.maps) + 1)

\* set(key, value, mutable): with mutable the receiver itself is the edited
\* object and is what is returned; without it a clone is.
Map_set(st, m, key, mutable) ==
    LET c == IF mutable THEN MapResult(st.maps, st.nodes, m) ELSE Map_clone(st, m)
        other == c.ret
        kh == Hasher_Hash(key)
    IN  IF st.maps[m].root = 0
        THEN MapResult([c.maps EXCEPT ![other] = [root |-> Len(c.nodes) + 1, size |-> 1]],
                       Append(c.nodes, mapLeaf(other, kh, <<key>>)), other)
        ELSE LET r == mapNode_set(c.nodes, st.maps[m].root, key, kh, 0, other)
             IN  MapResult([c.maps EXCEPT ![other] =
                                [root |-> r.id,
                                 size |-> IF r.resized THEN st.maps[m].size + 1
                                          ELSE st.maps[m].size]],
                           r.nodes, other)

Map_Set(st, m, key) == Map_set(st, m, key, FALSE)

Map_delete(st, m, key, mutable) ==
    IF st.maps[m].root = 0 THEN MapResult(st.maps, st.nodes, m)
    ELSE LET c == IF mutable THEN MapResult(st.maps, st.nodes, m) ELSE Map_clone(st, m)
             other == c.ret
             r == mapNode_delete(c.nodes, st.maps[m].root, key, Hasher_Hash(key), 0, other)
         IN  IF ~r.resized THEN MapResult(st.maps, st.nodes, m)
             ELSE MapResult([c.maps EXCEPT ![other] =
                                [root |-> r.id, size |-> st.maps[m].size - 1]],
                            r.nodes, other)

Map_Delete(st, m, key) == Map_delete(st, m, key, FALSE)

Map_Get(st, m, key) == mapNode_get(st.nodes, st.maps[m].root, key, Hasher_Hash(key), 0)
Map_Len(st, m) == st.maps[m].size

(***************************************************************************)
(* MapIterator: a stack of (node, index) frames from the root to the       *)
(* current entry; index is a slot of a branch or a position in a leaf.     *)
(***************************************************************************)
Frame(n, i) == [node |-> n, index |-> i]

\* The frames from node id down to its lowest-indexed entry.
RECURSIVE mapFirstPath(_, _)
mapFirstPath(h, id) ==
    IF h[id].kind = "leaf" THEN <<Frame(id, 1)>>
    ELSE LET c == CHOOSE c \in Slots :
                      h[id].slots[c] # 0 /\ \A d \in Slots : d < c => h[id].slots[d] = 0
         IN  <<Frame(id, c)>> \o mapFirstPath(h, h[id].slots[c])

MapIterator_First(st, m) ==
    IF st.maps[m].root = 0 THEN <<>> ELSE mapFirstPath(st.nodes, st.maps[m].root)

MapIterator_Done(stack) == stack = <<>>

\* The stack after moving past the entry on top of it.
RECURSIVE mapAdvance(_, _)
mapAdvance(h, stack) ==
    IF stack = <<>> THEN <<>>
    ELSE LET d == Len(stack)
             f == stack[d]
             n == h[f.node]
             below == SubSeq(stack, 1, d - 1)
         IN  IF n.kind = "leaf"
             THEN IF f.index < Len(n.entries)
                  THEN Append(below, Frame(f.node, f.index + 1))
                  ELSE mapAdvance(h, below)
             ELSE IF \E c \in Slots : c > f.index /\ n.slots[c] # 0
                  THEN LET c == CHOOSE c \in Slots :
                                   /\ c > f.index /\ n.slots[c] # 0
                                   /\ \A e \in Slots : (e > f.index /\ e < c) => n.slots[e] = 0
                       IN  Append(below, Frame(f.node, c)) \o mapFirstPath(h, n.slots[c])
                  ELSE mapAdvance(h, below)

\* Next: the current entry, then the cursor moves on.
MapIterator_Next(st, stack) ==
    IF MapIterator_Done(stack) THEN [val |-> 0, ok |-> FALSE, stack |-> stack]
    ELSE LET f == stack[Len(stack)]
         IN  [val |-> st.nodes[f.node].entries[f.index], ok |-> TRUE,
              stack |-> mapAdvance(st.nodes, stack)]

(***************************************************************************)
(* Comparer: a strict total order on the values.                           *)
(***************************************************************************)
Comparer_Compare(a, b) == IF a < b THEN -1 ELSE IF a > b THEN 1 ELSE 0

(***************************************************************************)
(* SortedMap (balanced tree) nodes.  kind "sleaf": ordered entries.  kind  *)
(* "sbranch": children, and one separator key per child after the first,   *)
(* equal to the minimum key under that child.  Every node but the root     *)
(* holds between MinItems and MaxItems items.                              *)
(***************************************************************************)
MinItems == MaxItems \div 2

RECURSIVE sortedMinKey(_, _)
sortedMinKey(h, id) ==
    IF h[id].kind = "sleaf" THEN h[id].entries[1] ELSE sortedMinKey(h, h[id].children[1])

sortedLeaf(ed, entries) ==
    [kind |-> "sleaf", owner |-> ed, entries |-> entries, keys |-> <<>>, children |-> <<>>]
sortedBranch(h, ed, children) ==
    [kind |-> "sbranch", owner |-> ed, entries |-> <<>>,
     keys |-> [i \in 1..(Len(children) - 1) |-> sortedMinKey(h, children[i + 1])],
     children |-> children]

\* The items of a node (entries of a leaf, children of a branch).
nodeItems(n) == IF n.kind = "sleaf" THEN n.entries ELSE n.children
withItems(h, n, items) ==
    IF n.kind = "sleaf" THEN [n EXCEPT !.entries = items] ELSE sortedBranch(h, n.owner, items)

InsertAt(s, p, x) ==
    [j \in 1..(Len(s) + 1) |-> IF j < p THEN s[j] ELSE IF j = p THEN x ELSE s[j - 1]]
ReplaceAt(s, p, x) == [s EXCEPT ![p] = x]

\* Position of key among ordered entries: one past the entries that are less.
lowerBound(entries, key) ==
    1 + Cardinality({j \in 1..Len(entries) : Comparer_Compare(entries[j], key) < 0})
\* The child a search for key follows: one past the separators that are <= key.
childIndex(n, key) ==
    1 + Cardinality({j \in 1..Len(n.keys) : Comparer_Compare(n.keys[j], key) <= 0})

SplitResult(h, id, split, resized) ==
    [nodes |-> h, id |-> id, split |-> split, resized |-> resized]

\* Store items in node id; more than MaxItems are split at the median into
\* this node and a new right sibling (returned as split).
sortedStore(h, id, ed, items, resized) ==
    LET n == h[id] IN
    IF Len(items) <= MaxItems
    THEN LET w == nodeWrite(h, id, ed, withItems(h, n, items))
         IN  SplitResult(w.nodes, w.id, 0, resized)
    ELSE LET mid == Len(items) \div 2
             w == nodeWrite(h, id, ed, withItems(h, n, SubSeq(items, 1, mid)))
             right == withItems(w.nodes, [n EXCEPT !.owner = ed],
                                SubSeq(items, mid + 1, Len(items)))
         IN  SplitResult(Append(w.nodes, right), w.id, Len(w.nodes) + 1, resized)

RECURSIVE sortedNode_set(_, _, _, _)
sortedNode_set(h, id, key, ed) ==
    LET n == h[id] IN
    IF n.kind = "sleaf"
    THEN IF \E i \in 1..Len(n.entries) : Comparer_Compare(n.entries[i], key) = 0
         THEN LET w == nodeWrite(h, id, ed, n)
              IN  SplitResult(w.nodes, w.id, 0, FALSE)
         ELSE sortedStore(h, id, ed, InsertAt(n.entries, lowerBound(n.entries, key), key), TRUE)
    ELSE LET i == childIndex(n, key)
             r == sortedNode_set(h, n.children[i], key, ed)
             c1 == ReplaceAt(n.children, i, r.id)
             c2 == IF r.split = 0 THEN c1 ELSE InsertAt(c1, i + 1, r.split)
         IN  sortedStore(r.nodes, id, ed, c2, r.resized)

\* Child i of the children ch has lost an item.  Below MinItems it borrows
\* one item from an adjacent sibling that can spare one, else merges with a
\* sibling.  Returns the heap and the children after it.
sortedRebalance(h, ch, i, ed) ==
    LET c == h[ch[i]]
        hasL == i > 1
        hasR == i < Len(ch)
    IN  IF Len(nodeItems(c)) >= MinItems THEN [nodes |-> h, children |-> ch]
        ELSE IF hasL /\ Len(nodeItems(h[ch[i - 1]])) > MinItems
        THEN LET l == h[ch[i - 1]]
                 li == nodeItems(l)
                 w1 == nodeWrite(h, ch[i - 1], ed, withItems(h, l, SubSeq(li, 1, Len(li) - 1)))
                 w2 == nodeWrite(w1.nodes, ch[i], ed,
                                 withItems(w1.nodes, c, <<li[Len(li)]>> \o nodeItems(c)))
             IN  [nodes |-> w2.nodes,
                  children |-> ReplaceAt(ReplaceAt(ch, i - 1, w1.id), i, w2.id)]
        ELSE IF hasR /\ Len(nodeItems(h[ch[i + 1]])) > MinItems
        THEN LET r == h[ch[i + 1]]
                 ri == nodeItems(r)
                 w1 == nodeWrite(h, ch[i + 1], ed, withItems(h, r, Tail(ri)))
                 w2 == nodeWrite(w1.nodes, ch[i], ed,
                                 withItems(w1.nodes, c, Append(nodeItems(c), ri[1])))
             IN  [nodes |-> w2.nodes,
                  children |-> ReplaceAt(ReplaceAt(ch, i + 1, w1.id), i, w2.id)]
        ELSE IF hasL
        THEN LET l == h[ch[i - 1]]
                 w == nodeWrite(h, ch[i - 1], ed, withItems(h, l, nodeItems(l) \o nodeItems(c)))
             IN  [nodes |-> w.nodes, children |-> RemoveAt(ReplaceAt(ch, i - 1, w.id), i)]
        ELSE IF hasR
        THEN LET r == h[ch[i + 1]]
                 w == nodeWrite(h, ch[i], ed, withItems(h, c, nodeItems(c) \o nodeItems(r)))
             IN  [nodes |-> w.nodes, children |-> RemoveAt(ReplaceAt(ch, i, w.id), i + 1)]
        ELSE IF Len(nodeItems(c)) = 0
        THEN [nodes |-> h, children |-> <<>>]
        ELSE [nodes |-> h, children |-> ch]

RECURSIVE sortedNode_delete(_, _, _, _)
sortedNode_delete(h, id, key, ed) ==
    LET n == h[id] IN
    IF n.kind = "sleaf"
    THEN LET i == IF \E j \in 1..Len(n.entries) : Comparer_Compare(n.entries[j], key) = 0
                  THEN lowerBound(n.entries, key) ELSE 0
         IN  IF i = 0 THEN NodeResult(h, id, FALSE)
             ELSE LET w == nodeWrite(h, id, ed, [n EXCEPT !.entries = RemoveAt(@, i)])
                  IN  NodeResult(w.nodes, w.id, TRUE)
    ELSE LET i == childIndex(n, key)
             r == sortedNode_delete(h, n.children[i], key, ed)
         IN  IF ~r.resized THEN NodeResult(h, id, FALSE)
             ELSE LET b == sortedRebalance(r.nodes, ReplaceAt(n.children, i, r.id), i, ed)
                      w == nodeWrite(b.nodes, id, ed, sortedBranch(b.nodes, n.owner, b.children))
                  IN  NodeResult(w.nodes, w.id, TRUE)

RECURSIVE sortedNode_get(_, _, _)
sortedNode_get(h, id, key) ==
    IF id = 0 THEN FALSE
    ELSE IF h[id].kind = "sleaf"
    THEN \E i \in 1..Len(h[id].entries) : Comparer_Compare(h[id].entries[i], key) = 0
    ELSE sortedNode_get(h, h[id].children[childIndex(h[id], key)], key)

(***************************************************************************)
(* SortedMap objects.                                                      *)
(***************************************************************************)
NewSortedMap(st) == NewMap(st)
SortedMap_clone(st, m) == Map_clone(st, m)

SortedMap_set(st, m, key, mutable) ==
    LET c == IF mutable THEN MapResult(st.maps, st.nodes, m) ELSE SortedMap_clone(st, m)
        other == c.ret
    IN  IF st.maps[m].root = 0
        THEN MapResult([c.maps EXCEPT ![other] = [root |-> Len(c.nodes) + 1, size |-> 1]],
                       Append(c.nodes, sortedLeaf(other, <<key>>)), other)
        ELSE LET r == sortedNode_set(c.nodes, st.maps[m].root, key, other)
                 \* the root split: a new root one level taller
                 h2 == IF r.split = 0 THEN r.nodes
                       ELSE Append(r.nodes, sortedBranch(r.nodes, other, <<r.id, r.split>>))
                 newRoot == IF r.split = 0 THEN r.id ELSE Len(r.nodes) + 1
             IN  MapResult([c.maps EXCEPT ![other] =
                                [root |-> newRoot,
                                 size |-> IF r.resized THEN st.maps[m].size + 1
                                          ELSE st.maps[m].size]],
                           h2, other)

SortedMap_Set(st, m, key) == SortedMap_set(st, m, key, FALSE)

SortedMap_delete(st, m, key, mutable) ==
    IF st.maps[m].root = 0 THEN MapResult(st.maps, st.nodes, m)
    ELSE LET c == IF mutable THEN MapResult(st.maps, st.nodes, m) ELSE SortedMap_clone(st, m)
             other == c.ret
             r == sortedNode_delete(c.nodes, st.maps[m].root, key, other)
             n == r.nodes[r.id]
             \* an empty root goes; a root left with a single child shrinks the tree
             newRoot == IF Len(nodeItems(n)) = 0 THEN 0
                        ELSE IF n.kind = "sbranch" /\ Len(n.children) = 1 THEN n.children[1]
                        ELSE r.id
         IN  IF ~r.resized THEN MapResult(st.maps, st.nodes, m)
             ELSE MapResult([c.maps EXCEPT ![other] =
                                [root |-> newRoot, size |-> st.maps[m].size - 1]],
                            r.nodes, other)

SortedMap_Delete(st, m, key) == SortedMap_delete(st, m, key, FALSE)

SortedMap_Get(st, m, key) == sortedNode_get(st.nodes, st.maps[m].root, key)
SortedMap_Len(st, m) == st.maps[m].size

(***************************************************************************)
(* SortedMapIterator: a stack of (node, index) frames; index is a child of *)
(* a branch or an entry of a leaf.                                         *)
(***************************************************************************)
RECURSIVE sortedFirstPath(_, _)
sortedFirstPath(h, id) ==
    IF h[id].kind = "sleaf" THEN <<Frame(id, 1)>>
    ELSE <<Frame(id, 1)>> \o sortedFirstPath(h, h[id].children[1])

RECURSIVE sortedLastPath(_, _)
sortedLastPath(h, id) ==
    IF h[id].kind = "sleaf" THEN <<Frame(id, Len(h[id].entries))>>
    ELSE <<Frame(id, Len(h[id].children))>>
         \o sortedLastPath(h, h[id].children[Len(h[id].children)])

SortedMapIterator_First(st, m) ==
    IF st.maps[m].root = 0 THEN <<>> ELSE sortedFirstPath(st.nodes, st.maps[m].root)
SortedMapIterator_Last(st, m) ==
    IF st.maps[m].root = 0 THEN <<>> ELSE sortedLastPath(st.nodes, st.maps[m].root)
SortedMapIterator_Done(stack) == stack = <<>>

\* One entry forward: within the leaf, else up through the parent frames
\* and down into the next sibling subtree.
RECURSIVE sortedAdvance(_, _)
sortedAdvance(h, stack) ==
    IF stack = <<>> THEN <<>>
    ELSE LET d == Len(stack)
             f == stack[d]
             below == SubSeq(stack, 1, d - 1)
         IN  IF f.index < Len(nodeItems(h[f.node]))
             THEN IF h[f.node].kind = "sleaf"
                  THEN Append(below, Frame(f.node, f.index + 1))
                  ELSE Append(below, Frame(f.node, f.index + 1))
                       \o sortedFirstPath(h, h[f.node].children[f.index + 1])
             ELSE sortedAdvance(h, below)

\* One entry backward.
RECURSIVE sortedRetreat(_, _)
sortedRetreat(h, stack) ==
    IF stack = <<>> THEN <<>>
    ELSE LET d == Len(stack)
             f == stack[d]
             below == SubSeq(stack, 1, d - 1)
         IN  IF f.index > 1
             THEN IF h[f.node].kind = "sleaf"
                  THEN Append(below, Frame(f.node, f.index - 1))
                  ELSE Append(below, Frame(f.node, f.index - 1))
                       \o sortedLastPath(h, h[f.node].children[f.index - 1])
             ELSE sortedRetreat(h, below)

sortedCurrent(st, stack) == st.nodes[stack[Len(stack)].node].entries[stack[Len(stack)].index]

\* Next: the current entry, then the cursor advances.
SortedMapIterator_Next(st, stack) ==
    IF SortedMapIterator_Done(stack) THEN [val |-> 0, ok |-> FALSE, stack |-> stack]
    ELSE [val |-> sortedCurrent(st, stack), ok |-> TRUE,
          stack |-> sortedAdvance(st.nodes, stack)]

\* Prev: the cursor retreats one entry and yields the entry it is then on.
SortedMapIterator_Prev(st, stack) ==
    LET back == sortedRetreat(st.nodes, stack)
    IN  IF SortedMapIterator_Done(back) THEN [val |-> 0, ok |-> FALSE, stack |-> back]
        ELSE [val |-> sortedCurrent(st, back), ok |-> TRUE, stack |-> back]

\* Seek: the old cursor is dropped; descend from the root to the first
\* entry >= key.
RECURSIVE sortedSeekPath(_, _, _)
sortedSeekPath(h, id, key) ==
    IF h[id].kind = "sleaf"
    THEN <<Frame(id, lowerBound(h[id].entries, key))>>
    ELSE LET i == childIndex(h[id], key)
         IN  <<Frame(id, i)>> \o sortedSeekPath(h, h[id].children[i], key)

SortedMapIterator_Seek(st, m, key) ==
    IF st.maps[m].root = 0 THEN <<>>
    ELSE LET p == sortedSeekPath(st.nodes, st.maps[m].root, key)
             f == p[Len(p)]
         IN  IF f.index <= Len(st.nodes[f.node].entries) THEN p
             ELSE \* every entry of the leaf is less: the next leaf's first entry
                  sortedAdvance(st.nodes, [p EXCEPT ![Len(p)] = Frame(f.node, f.index - 1)])

(***************************************************************************)
(* Set: a value holding the pointer m to a Map.  An operation takes the    *)
(* heap and the pointer, and returns the heap after it and the pointer of  *)
(* the Set it returns.                                                     *)
(***************************************************************************)
St == Heap(maps, nodes)

\* for _, value := range values { m.set(value, struct{}{}, true) }: what
\* each call returns is dropped.
RECURSIVE Map_setEach(_, _, _)
Map_setEach(st, m, values) ==
    IF values = <<>> THEN MapResult(st.maps, st.nodes, m)
    ELSE LET r == Map_set(st, m, Head(values), TRUE)
         IN  Map_setEach(Heap(r.maps, r.nodes), m, Tail(values))

\* for _, value := range values { m.delete(value, true) }
RECURSIVE Map_deleteEach(_, _, _)
Map_deleteEach(st, m, values) ==
    IF values = <<>> THEN MapResult(st.maps, st.nodes, m)
    ELSE LET r == Map_delete(st, m, Head(values), TRUE)
         IN  Map_deleteEach(Heap(r.maps, r.nodes), m, Tail(values))

RECURSIVE SortedMap_setEach(_, _, _)
SortedMap_setEach(st, m, values) ==
    IF values = <<>> THEN MapResult(st.maps, st.nodes, m)
    ELSE LET r == SortedMap_set(st, m, Head(values), TRUE)
         IN  SortedMap_setEach(Heap(r.maps, r.nodes), m, Tail(values))

RECURSIVE SortedMap_deleteEach(_, _, _)
SortedMap_deleteEach(st, m, values) ==
    IF values = <<>> THEN MapResult(st.maps, st.nodes, m)
    ELSE LET r == SortedMap_delete(st, m, Head(values), TRUE)
         IN  SortedMap_deleteEach(Heap(r.maps, r.nodes), m, Tail(values))

\* Variant of the loop: m.Set(value, struct{}{}), the copying set.
RECURSIVE Map_SetEach(_, _, _)
Map_SetEach(st, m, values) ==
    IF values = <<>> THEN MapResult(st.maps, st.nodes, m)
    ELSE LET r == Map_Set(st, m, Head(values))
         IN  Map_SetEach(Heap(r.maps, r.nodes), m, Tail(values))

\* Variant: the loop calls the copying set and drops what it returns.
NewSet_copying(st, values) ==
    LET c == NewMap(st)
    IN  Map_SetEach(Heap(c.maps, c.nodes), c.ret, values)

NewSet(st, values) ==
    LET c == NewMap(st)
    IN  Map_setEach(Heap(c.maps, c.nodes), c.ret, values)

\* Variant: n.m is s.m itself, not a clone of it.
Set_Set_noClone(st, s, values) == Map_setEach(st, s, values)

Set_Set(st, s, values) ==
    LET c == Map_clone(st, s)
    IN  Map_setEach(Heap(c.maps, c.nodes), c.ret, values)

\* Variant: n.m is s.m itself, not a clone of it.
Set_Delete_noClone(st, s, values) == Map_deleteEach(st, s, values)

Set_Delete(st, s, values) ==
    LET c == Map_clone(st, s)
    IN  Map_deleteEach(Heap(c.maps, c.nodes), c.ret, values)

\* The single-value forms.
Set_Set1(st, s, val) == Map_Set(st, s, val)
Set_Delete1(st, s, val) == Map_Delete(st, s, val)

Set_Has(st, s, val) == Map_Get(st, s, val)
Set_Len(st, s) == Map_Len(st, s)

Set_Iterator(st, s) == MapIterator_First(st, s)
SetIterator_Done(stack) == MapIterator_Done(stack)
SetIterator_First(st, m) == MapIterator_First(st, m)
SetIterator_Next(st, stack) == MapIterator_Next(st, stack)

\* for !itr.Done() { v, _ := itr.Next(); r = append(r, v) }
RECURSIVE setDrain(_, _)
setDrain(st, stack) ==
    IF SetIterator_Done(stack) THEN <<>>
    ELSE LET n == SetIterator_Next(st, stack) IN <<n.val>> \o setDrain(st, n.stack)
\* Variant: one Next() before the loop.
Set_Items_skipFirst(st, s) ==
    setDrain(st, SetIterator_Next(st, Set_Iterator(st, s)).stack)

Set_Items(st, s) == setDrain(st, Set_Iterator(st, s))

(***************************************************************************)
(* SortedSet.                                                              *)
(***************************************************************************)
NewSortedSet(st, values) ==
    LET c == NewSortedMap(st)
    IN  SortedMap_setEach(Heap(c.maps, c.nodes), c.ret, values)

\* Variant: the loop edits s.m and the untouched clone is returned.
SortedSet_Set_receiver(st, s, values) ==
    LET c == SortedMap_clone(st, s)
        e == SortedMap_setEach(Heap(c.maps, c.nodes), s, values)
    IN  MapResult(e.maps, e.nodes, c.ret)

SortedSet_Set(st, s, values) ==
    LET c == SortedMap_clone(st, s)
    IN  SortedMap_setEach(Heap(c.maps, c.nodes), c.ret, values)

\* Variant: the loop of Set in Delete.
SortedSet_Delete_sets(st, s, values) ==
    LET c == SortedMap_clone(st, s)
    IN  SortedMap_setEach(Heap(c.maps, c.nodes), c.ret, values)

SortedSet_Delete(st, s, values) ==
    LET c == SortedMap_clone(st, s)
    IN  SortedMap_deleteEach(Heap(c.maps, c.nodes), c.ret, values)

SortedSet_Put(st, s, val) == SortedMap_Set(st, s, val)
SortedSet_Delete1(st, s, val) == SortedMap_Delete(st, s, val)

SortedSet_Has(st, s, val) == SortedMap_Get(st, s, val)
SortedSet_Len(st, s) == SortedMap_Len(st, s)

\* Variant: positioned by Last().
SortedSet_Iterator_last(st, s) == SortedMapIterator_Last(st, s)

SortedSet_Iterator(st, s) == SortedMapIterator_First(st, s)
SortedSetIterator_Done(stack) == SortedMapIterator_Done(stack)
SortedSetIterator_First(st, m) == SortedMapIterator_First(st, m)
SortedSetIterator_Last(st, m) == SortedMapIterator_Last(st, m)
SortedSetIterator_Next(st, stack) == SortedMapIterator_Next(st, stack)
\* Variant: Prev() forwards to Next().
SortedSetIterator_Prev_next(st, stack) == SortedMapIterator_Next(st, stack)

SortedSetIterator_Prev(st, stack) == SortedMapIterator_Prev(st, stack)
\* Variant: Seek() forwards to First().
SortedSetIterator_Seek_first(st, m, val) == SortedMapIterator_First(st, m)

SortedSetIterator_Seek(st, m, val) == SortedMapIterator_Seek(st, m, val)

RECURSIVE sortedDrain(_, _)
sortedDrain(st, stack) ==
    IF SortedSetIterator_Done(stack) THEN <<>>
    ELSE LET n == SortedSetIterator_Next(st, stack) IN <<n.val>> \o sortedDrain(st, n.stack)
SortedSet_Items(st, s) == sortedDrain(st, SortedSet_Iterator(st, s))

(***************************************************************************)
(* What a caller observes of the Set value behind pointer m, whichever the *)
(* engine.                                                                 *)
(***************************************************************************)
Has(st, m, x) == IF engine = "hash" THEN Set_Has(st, m, x) ELSE SortedSet_Has(st, m, x)
Length(st, m) == IF engine = "hash" THEN Set_Len(st, m) ELSE SortedSet_Len(st, m)
Items(st, m) == IF engine = "hash" THEN Set_Items(st, m) ELSE SortedSet_Items(st, m)
AllValues == 1..Max2(MaxVal, MaxIterVal)
Members(st, m) == {x \in AllValues : Has(st, m, x)}
Drain(st, stack) == IF engine = "hash" THEN setDrain(st, stack) ELSE sortedDrain(st, stack)

(***************************************************************************)
(* The callers.  Each call stores the Set it returns in a new slot of      *)
(* `sets`; the Set it was called on stays held.                            *)
(***************************************************************************)
NoItr == [m |-> 0, stack |-> <<>>, src |-> 0, view |-> <<>>]
Call(op, src, vals, pre, preLen) ==
    [op |-> op, src |-> src, dst |-> 0, vals |-> vals, pre |-> pre, preLen |-> preLen,
     val |-> 0, ok |-> FALSE, seek |-> 0]
NoCall == Call("none", 0, <<>>, {}, 0)

Init ==
    /\ engine \in {"hash", "sorted"}
    /\ maps = <<>>
    /\ nodes = <<>>
    /\ sets = <<>>
    /\ itr = NoItr
    /\ builder = 0
    /\ last = NoCall

Held == 1..Len(sets)

\* The heap after a call that returned r, with the result in a new slot.
Returned(r, op, src, vals) ==
    /\ maps' = r.maps
    /\ nodes' = r.nodes
    /\ sets' = Append(sets, r.ret)
    /\ last' = [Call(op, src, vals,
                     IF src = 0 THEN {} ELSE Members(St, sets[src]),
                     IF src = 0 THEN 0 ELSE Length(St, sets[src]))
                  EXCEPT !.dst = Len(sets) + 1]
    /\ UNCHANGED <<engine, itr, builder>>

CallNewSet(values) ==
    /\ engine = "hash" /\ Len(sets) < MaxNew
    /\ Returned(NewSet(St, values), "New", 0, values)

CallSet_Set(i, values) ==
    /\ engine = "hash" /\ Len(sets) < MaxSets
    /\ Returned(Set_Set(St, sets[i], values), "Set", i, values)

CallSet_Delete(i, values) ==
    /\ engine = "hash" /\ Len(sets) < MaxSets
    /\ Returned(Set_Delete(St, sets[i], values), "Delete", i, values)

CallSet_Set1(i, val) ==
    /\ engine = "hash" /\ Len(sets) < MaxSets
    /\ Returned(Set_Set1(St, sets[i], val), "Set", i, <<val>>)

CallSet_Delete1(i, val) ==
    /\ engine = "hash" /\ Len(sets) < MaxSets
    /\ Returned(Set_Delete1(St, sets[i], val), "Delete", i, <<val>>)

CallNewSortedSet(values) ==
    /\ engine = "sorted" /\ Len(sets) < MaxNew
    /\ Returned(NewSortedSet(St, values), "New", 0, values)

CallSortedSet_Set(i, values) ==
    /\ engine = "sorted" /\ Len(sets) < MaxSets
    /\ Returned(SortedSet_Set(St, sets[i], values), "Set", i, values)

CallSortedSet_Delete(i, values) ==
    /\ engine = "sorted" /\ Len(sets) < MaxSets
    /\ Returned(SortedSet_Delete(St, sets[i], values), "Delete", i, values)

CallSortedSet_Put(i, val) ==
    /\ engine = "sorted" /\ Len(sets) < MaxSets
    /\ Returned(SortedSet_Put(St, sets[i], val), "Set", i, <<val>>)

CallSortedSet_Delete1(i, val) ==
    /\ engine = "sorted" /\ Len(sets) < MaxSets
    /\ Returned(SortedSet_Delete1(St, sets[i], val), "Delete", i, <<val>>)

\* A reader takes an iterator of held set i and steps it.
CallSet_Iterator(i) ==
    /\ engine = "hash" /\ itr.m = 0
    /\ itr' = [m |-> sets[i], stack |-> Set_Iterator(St, sets[i]), src |-> i,
               view |-> Set_Items(St, sets[i])]
    /\ last' = Call("Iterator", i, <<>>, {}, 0)
    /\ UNCHANGED <<engine, maps, nodes, sets, builder>>

CallSetIterator_Next ==
    /\ engine = "hash" /\ itr.m # 0 /\ ~SetIterator_Done(itr.stack)
    /\ LET n == SetIterator_Next(St, itr.stack)
       IN  /\ itr' = [itr EXCEPT !.stack = n.stack]
           /\ last' = [Call("Next", itr.src, <<>>, {}, 0) EXCEPT !.val = n.val, !.ok = n.ok]
    /\ UNCHANGED <<engine, maps, nodes, sets, builder>>

CallSortedSet_Iterator(i) ==
    /\ engine = "sorted" /\ itr.m = 0
    /\ itr' = [m |-> sets[i], stack |-> SortedSet_Iterator(St, sets[i]), src |-> i,
               view |-> SortedSet_Items(St, sets[i])]
    /\ last' = Call("Iterator", i, <<>>, {}, 0)
    /\ UNCHANGED <<engine, maps, nodes, sets, builder>>

CallSortedSetIterator_Next ==
    /\ engine = "sorted" /\ itr.m # 0 /\ ~SortedSetIterator_Done(itr.stack)
    /\ LET n == SortedSetIterator_Next(St, itr.stack)
       IN  /\ itr' = [itr EXCEPT !.stack = n.stack]
           /\ last' = [Call("Next", itr.src, <<>>, {}, 0) EXCEPT !.val = n.val, !.ok = n.ok]
    /\ UNCHANGED <<engine, maps, nodes, sets, builder>>

Next ==
    \/ \E values \in ArgLists : CallNewSet(values)
    \/ \E i \in Held, values \in ArgLists : CallSet_Set(i, values)
    \/ \E i \in Held, values \in ArgLists : CallSet_Delete(i, values)
    \/ \E i \in Held, val \in Values : CallSet_Set1(i, val)
    \/ \E i \in Held, val \in Values : CallSet_Delete1(i, val)
    \/ \E values \in ArgLists : CallNewSortedSet(values)
    \/ \E i \in Held, values \in ArgLists : CallSortedSet_Set(i, values)
    \/ \E i \in Held, values \in ArgLists : CallSortedSet_Delete(i, values)
    \/ \E i \in Held, val \in Values : CallSortedSet_Put(i, val)
    \/ \E i \in Held, val \in Values : CallSortedSet_Delete1(i, val)
    \/ \E i \in Held : CallSet_Iterator(i)
    \/ CallSetIterator_Next
    \/ \E i \in Held : CallSortedSet_Iterator(i)
    \/ CallSortedSetIterator_Next

Spec == Init /\ [][Next]_vars

(***************************************************************************)
(* A reader that seeks: one SortedSet is built, possibly edited once, and  *)
(* a SortedSetIterator over it is moved in both directions.  The iterator  *)
(* calls keep the record of the call that built the set (last.vals).       *)
(***************************************************************************)
IterValues == 1..MaxIterVal
IterLists == UNION {[1..n -> IterValues] : n \in 0..MaxIterArgs}

IterNewSortedSet(values) ==
    /\ sets = <<>>
    /\ Returned(NewSortedSet(St, values), "New", 0, values)

IterSortedSet_Set(i, val) ==
    /\ Len(sets) < MaxIterSets /\ itr.m = 0
    /\ Returned(SortedSet_Set(St, sets[i], <<val>>), "Set", i, <<val>>)

IterSortedSet_Delete(i, val) ==
    /\ Len(sets) < MaxIterSets /\ itr.m = 0
    /\ Returned(SortedSet_Delete(St, sets[i], <<val>>), "Delete", i, <<val>>)

IterFrame == UNCHANGED <<engine, maps, nodes, sets, builder>>

IterSortedSet_Iterator(i) ==
    /\ itr.m = 0
    /\ itr' = [m |-> sets[i], stack |-> SortedSet_Iterator(St, sets[i]), src |-> i,
               view |-> SortedSet_Items(St, sets[i])]
    /\ last' = [last EXCEPT !.op = "Iterator", !.src = i, !.val = 0, !.ok = FALSE, !.seek = 0]
    /\ IterFrame

IterFirst ==
    /\ itr.m # 0
    /\ itr' = [itr EXCEPT !.stack = SortedSetIterator_First(St, itr.m)]
    /\ last' = [last EXCEPT !.op = "First", !.val = 0, !.ok = FALSE, !.seek = 0]
    /\ IterFrame

IterLast ==
    /\ itr.m # 0
    /\ itr' = [itr EXCEPT !.stack = SortedSetIterator_Last(St, itr.m)]
    /\ last' = [last EXCEPT !.op = "Last", !.val = 0, !.ok = FALSE, !.seek = 0]
    /\ IterFrame

IterNext ==
    /\ itr.m # 0
    /\ LET n == SortedSetIterator_Next(St, itr.stack)
       IN  /\ itr' = [itr EXCEPT !.stack = n.stack]
           /\ last' = [last EXCEPT !.op = "Next", !.val = n.val, !.ok = n.ok, !.seek = 0]
    /\ IterFrame

\* last.seek of a Prev is the value sought by the call right before it, when
\* that call was a Seek that landed on a member (0 otherwise).
IterPrev ==
    /\ itr.m # 0
    /\ LET n == SortedSetIterator_Prev(St, itr.stack)
       IN  /\ itr' = [itr EXCEPT !.stack = n.stack]
           /\ last' = [last EXCEPT !.op = "Prev", !.val = n.val, !.ok = n.ok,
                                   !.seek = IF last.op = "Seek" /\ last.ok
                                            THEN last.seek ELSE 0]
    /\ IterFrame

\* last.ok of a Seek: it landed on a member; last.preLen: 1 when the
\* iterator was exhausted before the call.
IterSeek(val) ==
    /\ itr.m # 0
    /\ LET stack == SortedSetIterator_Seek(St, itr.m, val)
       IN  /\ itr' = [itr EXCEPT !.stack = stack]
           /\ last' = [last EXCEPT !.op = "Seek", !.val = 0, !.seek = val,
                                   !.ok = ~SortedSetIterator_Done(stack),
                                   !.preLen = IF SortedSetIterator_Done(itr.stack)
                                              THEN 1 ELSE 0]
    /\ IterFrame

InitIter == Init /\ engine = "sorted"

NextIter ==
    \/ \E values \in IterLists : IterNewSortedSet(values)
    \/ \E i \in Held, val \in IterValues : IterSortedSet_Set(i, val)
    \/ \E i \in Held, val \in IterValues : IterSortedSet_Delete(i, val)
    \/ \E i \in Held : IterSortedSet_Iterator(i)
    \/ IterFirst
    \/ IterLast
    \/ IterNext
    \/ IterPrev
    \/ \E val \in IterValues : IterSeek(val)

SpecIter == InitIter /\ [][NextIter]_vars

(***************************************************************************)
(* Builders.  Set and Delete have value receivers: they work on a copy of  *)
(* the builder struct, and the assignment to the copy's field s.s.m is     *)
(* dropped when they return.  A call returns the heap after it, what the   *)
(* copy's field was assigned (recv) and the builder the caller still has.  *)
(***************************************************************************)
BuilderResult(r, b) == [maps |-> r.maps, nodes |-> r.nodes, recv |-> r.ret, b |-> b]

NewSetBuilder(st) == NewSet(st, <<>>)
\* Variant: the copying set; the new Map is known to the receiver copy only.
SetBuilder_Set_copying(st, b, val) == BuilderResult(Map_set(st, b, val, FALSE), b)

SetBuilder_Set(st, b, val) == BuilderResult(Map_set(st, b, val, TRUE), b)
SetBuilder_Delete(st, b, val) == BuilderResult(Map_delete(st, b, val, TRUE), b)
SetBuilder_Has(st, b, val) == Set_Has(st, b, val)
SetBuilder_Len(st, b) == Set_Len(st, b)

NewSortedSetBuilder(st) == NewSortedSet(st, <<>>)
SortedSetBuilder_Set(st, b, val) == BuilderResult(SortedMap_set(st, b, val, TRUE), b)
SortedSetBuilder_Delete(st, b, val) == BuilderResult(SortedMap_delete(st, b, val, TRUE), b)
SortedSetBuilder_Has(st, b, val) == SortedSet_Has(st, b, val)
SortedSetBuilder_Len(st, b) == SortedSet_Len(st, b)

\* last.pre: the values set through the builder and not deleted afterwards;
\* last.preLen: the number of calls made through it.
BuilderCreated(r) ==
    /\ builder = 0
    /\ maps' = r.maps /\ nodes' = r.nodes /\ builder' = r.ret
    /\ last' = Call("NewBuilder", 0, <<>>, {}, 0)
    /\ UNCHANGED <<engine, sets, itr>>

BuilderCalled(r, op, val, expected) ==
    /\ builder # 0 /\ last.preLen < MaxBuilderOps
    /\ maps' = r.maps /\ nodes' = r.nodes /\ builder' = r.b
    /\ last' = Call(op, 0, <<val>>, expected, last.preLen + 1)
    /\ UNCHANGED <<engine, sets, itr>>

CallNewSetBuilder == engine = "hash" /\ BuilderCreated(NewSetBuilder(St))
CallSetBuilder_Set(val) ==
    /\ engine = "hash" /\ builder # 0
    /\ BuilderCalled(SetBuilder_Set(St, builder, val), "BSet", val, last.pre \cup {val})
CallSetBuilder_Delete(val) ==
    /\ engine = "hash" /\ builder # 0
    /\ BuilderCalled(SetBuilder_Delete(St, builder, val), "BDelete", val, last.pre \ {val})

CallNewSortedSetBuilder == engine = "sorted" /\ BuilderCreated(NewSortedSetBuilder(St))
CallSortedSetBuilder_Set(val) ==
    /\ engine = "sorted" /\ builder # 0
    /\ BuilderCalled(SortedSetBuilder_Set(St, builder, val), "BSet", val, last.pre \cup {val})
CallSortedSetBuilder_Delete(val) ==
    /\ engine = "sorted" /\ builder # 0
    /\ BuilderCalled(SortedSetBuilder_Delete(St, builder, val), "BDelete", val, last.pre \ {val})

BuilderHas(x) ==
    IF engine = "hash" THEN SetBuilder_Has(St, builder, x) ELSE SortedSetBuilder_Has(St, builder, x)
BuilderLen ==
    IF engine = "hash" THEN SetBuilder_Len(St, builder) ELSE SortedSetBuilder_Len(St, builder)

NextBuilder ==
    \/ CallNewSetBuilder
    \/ \E val \in Values : CallSetBuilder_Set(val)
    \/ \E val \in Values : CallSetBuilder_Delete(val)
    \/ CallNewSortedSetBuilder
    \/ \E val \in Values : CallSortedSetBuilder_Set(val)
    \/ \E val \in Values : CallSortedSetBuilder_Delete(val)

SpecBuilder == Init /\ [][NextBuilder]_vars

(***************************************************************************)
(* Shape of the two trees (what the operations above keep true).           *)
(***************************************************************************)
Kids(h, id) ==
    IF engine = "hash" THEN {h[id].slots[c] : c \in Slots} \ {0} ELSE Range(h[id].children)

RECURSIVE Reach(_, _)
Reach(h, id) ==
    IF id = 0 THEN {} ELSE {id} \cup UNION {Reach(h, k) : k \in Kids(h, id)}

RECURSIVE Depths(_, _)
Depths(h, id) ==
    IF h[id].kind = "sleaf" THEN {0} ELSE {d + 1 : d \in UNION {Depths(h, k) : k \in Kids(h, id)}}

RECURSIVE sortedKeysUnder(_, _)
sortedKeysUnder(h, id) ==
    IF h[id].kind = "sleaf" THEN Range(h[id].entries)
    ELSE UNION {sortedKeysUnder(h, k) : k \in Kids(h, id)}

TreeShape ==
    engine = "sorted" =>
        \A i \in Held : LET root == maps[sets[i]].root IN
            root # 0 =>
                /\ Cardinality(Depths(nodes, root)) = 1
                /\ \A id \in Reach(nodes, root) : LET n == nodes[id] IN
                    /\ Len(nodeItems(n)) <= MaxItems
                    /\ Len(nodeItems(n)) >= 1
                    /\ id # root => Len(nodeItems(n)) >= MinItems
                    /\ n.kind = "sleaf" =>
                        \A a, b \in 1..Len(n.entries) :
                            a < b => Comparer_Compare(n.entries[a], n.entries[b]) < 0
                    /\ n.kind = "sbranch" =>
                        /\ Len(n.keys) = Len(n.children) - 1
                        /\ \A j \in 1..Len(n.keys) :
                            /\ n.keys[j] = sortedMinKey(nodes, n.children[j + 1])
                            /\ \A k \in sortedKeysUnder(nodes, n.children[j]) : k < n.keys[j]

RECURSIVE trieOk(_, _, _, _)
trieOk(h, id, level, prefix) ==
    \* prefix: the chunks chosen on the way down, as a function of the level
    LET n == h[id] IN
    IF n.kind = "leaf"
    THEN /\ Len(n.entries) >= 1
         /\ \A e \in Range(n.entries) : Hasher_Hash(e) = n.hash
         /\ \A a, b \in 1..Len(n.entries) : a # b => n.entries[a] # n.entries[b]
         /\ \A l \in 0..(level - 1) : Chunk(n.hash, l) = prefix[l + 1]
    ELSE /\ SlotCount(n.slots) >= 1
         /\ n.kind = BranchKind(n.slots)
         /\ \A c \in Slots : n.slots[c] # 0 =>
                trieOk(h, n.slots[c], level + 1, Append(prefix, c))

TrieShape ==
    engine = "hash" =>
        \A i \in Held : maps[sets[i]].root # 0 => trieOk(nodes, maps[sets[i]].root, 0, <<>>)

(***************************************************************************)
(* Properties.                                                             *)
(***************************************************************************)
IsSuffix(a, b) == Len(a) <= Len(b) /\ a = SubSeq(b, Len(b) - Len(a) + 1, Len(b))
Args == Range(last.vals)
Dst == sets[last.dst]
Src == sets[last.src]
Edit == last.op \in {"Set", "Delete"}
StNext == Heap(maps', nodes')

RECURSIVE SortedSeq(_)
SortedSeq(S) ==
    IF S = {} THEN <<>>
    ELSE LET m == CHOOSE m \in S : \A x \in S : m <= x
         IN  <<m>> \o SortedSeq(S \ {m})

\* C1: Persistence.  No call changes what a held Set or SortedSet shows: for
\* every held set and every value x, Has(x), Len() and the values of a full
\* iteration are the same after the step as before it.
C1_Persistence ==
    [][\A i \in Held :
          /\ sets'[i] = sets[i]
          /\ \A x \in Values : Has(StNext, sets[i], x) = Has(St, sets[i], x)
          /\ Length(StNext, sets[i]) = Length(St, sets[i])
          /\ Items(StNext, sets[i]) = Items(St, sets[i])]_vars

\* An edit of a non-empty set returned a set with other members, and the
\* set it was called on still has the members it had.
C1_Witness ==
    /\ Edit /\ last.pre # {} /\ Args # {}
    /\ Members(St, Dst) # last.pre
    /\ Members(St, Src) = last.pre

\* C2: Set (and NewSet, on the empty set) returns a set that has x exactly
\* when the receiver had x or x is one of the values; any other value is
\* reported absent.
C2_SetContains ==
    last.op \in {"Set", "New"} =>
        \A x \in AllValues : Has(St, Dst, x) <=> (x \in last.pre \/ x \in Args)

C2_Witness ==
    /\ last.op = "Set" /\ last.pre # {} /\ ~(Args \subseteq last.pre)
    /\ \E x \in Values : ~Has(St, Dst, x)
    /\ \A x \in Args : Has(St, Dst, x)

\* C3: Delete returns a set that has x exactly when the receiver had x and x
\* is none of the values; when no value was present the result has the same
\* members and the same Len.
C3_DeleteRemoves ==
    last.op = "Delete" =>
        /\ \A x \in AllValues : Has(St, Dst, x) <=> (x \in last.pre /\ x \notin Args)
        /\ Args \cap last.pre = {} =>
              /\ Members(St, Dst) = last.pre
              /\ Length(St, Dst) = last.preLen

\* A Delete of values that are all absent, and one from the empty set.
C3_Witness ==
    /\ last.op = "Delete" /\ Args # {} /\ Args \cap last.pre = {}
    /\ Length(St, Dst) = last.preLen
    /\ \E i \in Held : Length(St, sets[i]) = 0

\* C4: Len() is the number of distinct values of the set; a Set call adds
\* one per value not yet present (a value repeated in the call counts once),
\* a Delete call takes one off per value present.
C4_Size ==
    /\ \A i \in Held : Length(St, sets[i]) = Cardinality(Members(St, sets[i]))
    /\ last.op \in {"Set", "New"} =>
          Length(St, Dst) = last.preLen + Cardinality(Args \ last.pre)
    /\ last.op = "Delete" =>
          Length(St, Dst) = last.preLen - Cardinality(Args \cap last.pre)

\* One call with the same new value twice: Len grows by one.
C4_Witness ==
    /\ last.op = "Set" /\ Len(last.vals) = 2 /\ last.vals[1] = last.vals[2]
    /\ last.vals[1] \notin last.pre
    /\ Length(St, Dst) = last.preLen + 1

\* C5: a full iteration of a SortedSet (Items) yields every member once, in
\* strictly increasing order: the sorted sequence of its members.
C5_SortedOrder ==
    engine = "sorted" =>
        \A i \in Held : SortedSet_Items(St, sets[i]) = SortedSeq(Members(St, sets[i]))

\* Three members, given in an order that is not theirs.
C5_Witness ==
    /\ engine = "sorted" /\ last.op \in {"Set", "New"}
    /\ Len(last.vals) = 2 /\ last.vals[1] > last.vals[2]
    /\ Len(SortedSet_Items(St, Dst)) = 3

\* C6: after Seek(x) the iterator is on the smallest member >= x (the next
\* Next() returns it); with no such member Done() is true.
C6_Seek ==
    last.op = "Seek" =>
        LET ge == {y \in Members(St, itr.m) : y >= last.seek}
            n == SortedSetIterator_Next(St, itr.stack)
        IN  IF ge = {} THEN SortedSetIterator_Done(itr.stack)
            ELSE /\ ~SortedSetIterator_Done(itr.stack)
                 /\ n.ok
                 /\ n.val \in ge /\ \A y \in ge : n.val <= y

\* A Seek from an exhausted iterator for a value that is no member, landing
\* on the next larger member, in a tree of more than one node.
C6_Witness ==
    /\ last.op = "Seek" /\ last.preLen = 1
    /\ ~SortedSetIterator_Done(itr.stack)
    /\ SortedSetIterator_Next(St, itr.stack).val > last.seek
    /\ Len(itr.stack) > 1

C8_BuilderReads ==
    builder # 0 =>
        /\ \A x \in Values : BuilderHas(x) <=> x \in last.pre
        /\ BuilderLen = Cardinality(last.pre)

\* A Delete emptied a builder that had been filled from empty.
C8_Witness ==
    /\ builder # 0 /\ last.op = "BDelete" /\ last.preLen >= 2
    /\ last.pre = {} /\ BuilderLen = 0
    /\ ~BuilderHas(last.vals[1])

\* C9: no step writes to a Map object or a node reachable from a held set,
\* and an iterator goes on yielding the rest of the values the set had when
\* the iterator was made, whatever calls are made on that set meanwhile.
C9_ReadersIsolated ==
    [][/\ \A i \in Held :
            /\ maps'[sets[i]] = maps[sets[i]]
            /\ \A id \in Reach(nodes, maps[sets[i]].root) : nodes'[id] = nodes[id]
       /\ (itr.m # 0 /\ itr'.stack = itr.stack) =>
            Drain(StNext, itr'.stack) = Drain(St, itr.stack)
       /\ itr'.m # 0 =>
            /\ IsSuffix(Drain(StNext, itr'.stack), itr'.view)
            /\ Items(StNext, itr'.m) = itr'.view]_vars

\* An edit of the set under iteration, made after the first Next() and
\* before the last.
C9_Witness ==
    /\ itr.m # 0 /\ Edit /\ last.src = itr.src /\ Args # {}
    /\ Members(St, Dst) # last.pre
    /\ Len(Drain(St, itr.stack)) > 0
    /\ Len(Drain(St, itr.stack)) < Len(itr.view)

\* C10: for every held set, old versions included, a full iteration yields
\* Len() values, each of them a member, none twice.
C10_CachedSize ==
    \A i \in Held :
        LET items == Items(St, sets[i])
        IN  /\ Len(items) = Length(St, sets[i])
            /\ \A k \in 1..Len(items) : Has(St, sets[i], items[k])
            /\ \A a, b \in 1..Len(items) : a # b => items[a] # items[b]

\* A set two edits old, still held, differing from both of its successors.
C10_Witness ==
    /\ Len(sets) = 3 /\ Edit /\ last.src = 2
    /\ Length(St, sets[1]) > 0
    /\ Members(St, sets[1]) # Members(St, sets[2])
    /\ Members(St, sets[2]) # Members(St, sets[3])

====
